---- MODULE Spec2Model ----
(***************************************************************************)
(* Model of the authentication core of the service: the credential hasher  *)
(* (utils/security.py, passlib CryptContext with the bcrypt scheme), the   *)
(* token codec (utils/security.py, python-jose), the relational user store *)
(* (adapters/database/postgres), AuthService (core/services) and the API   *)
(* layer (api/v1/dependencies.py, api/v1/endpoints), and next to it the    *)
(* Mongo adapter, the cache, UserService and OrderService.                 *)
(*                                                                         *)
(* Idealisations, stated once:                                             *)
(*  - bcrypt is a collision-free function of (first 72 bytes of the        *)
(*    password, salt): the checksum is modelled as that pair;              *)
(*  - a random salt and a uuid4 primary key never repeat: they are drawn   *)
(*    fresh (the smallest value not in use / a counter);                   *)
(*  - a name a module uses without importing it (typing.Optional in the    *)
(*    Mongo adapter, User and the repository interfaces in the services)   *)
(*    resolves to the definition the repository has for it: the model is   *)
(*    of what the functions do.                                            *)
(***************************************************************************)
EXTENDS Integers, Sequences, FiniteSets, TLC

VARIABLES
    users,      \* the rows of the users table (PostgresUserRepository)
    nextId,     \* the next primary key the store hands out (uuid4: never reused)
    now,        \* the wall clock, in clock ticks
    reg,        \* per request slot: the AuthService.register call in flight
    last,       \* the operation that completed last, with its inputs and result
    hasher,     \* the credential hasher's calls (hash twice, verify once)
    token,      \* the token codec's calls (encode, decode)
    bearer,     \* the access tokens that login has handed to clients
    resp,       \* the HTTP request served last, with its response
    mongo,      \* the users collection of MongoUserRepository, and its last result
    cache,      \* the cache (RedisCache): key -> value
    calls,      \* per request slot: the UserService call in flight
    orders,     \* the orders the order repository holds
    order_call  \* the OrderService.create_order call in flight

vars == <<users, nextId, now, reg, last, hasher, token, bearer, resp,
          mongo, cache, calls, orders, order_call>>

----------------------------------------------------------------------------
(* Bounds and input sets                                                   *)

MaxIds == 2          \* at most this many rows are ever inserted
MaxSalts == 3        \* salts the hasher can draw from
MaxSkew == 4         \* clock ticks the clock takes one by one after a jump

None == -1           \* Optional[...] = None for ids and timestamps

Procs == {"r1", "r2"}
Emails == {"a@x.com", "b@x.com"}

Pass123 == <<"P", "a", "s", "s", "1", "2", "3", "!">>
Other456 == <<"O", "t", "h", "e", "r", "4", "5", "6", "!">>
Wrong == <<"w", "r", "o", "n", "g">>

\* the password and name a request slot registers with (spec.md section 8:
\* register("a@x.com", "Pass123!", "A") then register("a@x.com", "Other456!", "B"))
RegPassword(p) == IF p = "r1" THEN Pass123 ELSE Other456
RegName(p) == IF p = "r1" THEN "A" ELSE "B"
NulPassword == <<"P", "a", "s", "s", "NUL", "1", "2", "3">>
LoginPasswords == {Pass123, Other456, Wrong, NulPassword}

----------------------------------------------------------------------------
(* Credential hasher: passlib CryptContext(schemes=["bcrypt"])             *)

BcryptMaxBytes == 72     \* bcrypt reads the first 72 bytes of the password

NUL == "NUL"             \* the byte 0x00

Min(a, b) == IF a < b THEN a ELSE b

HasNul(p) == \E i \in 1..Len(p) : p[i] = NUL

MaxPasswordSize == 4096  \* passlib refuses longer passwords

\* the exception passlib's bcrypt handler raises for a password, or "none"
PasswordError(p) ==
    IF Len(p) > MaxPasswordSize THEN "PasswordSizeError"
    ELSE IF HasNul(p) THEN "NullPasswordError"
    ELSE "none"

\* the bytes of the password bcrypt actually hashes
BcryptKey(p) == SubSeq(p, 1, Min(Len(p), BcryptMaxBytes))

\* the 31-character checksum: an injective function of (salt, key)
BcryptChecksum(key, salt) == <<salt, key>>

NoDigest == [ident |-> "", salt |-> 0, checksum |-> <<>>]

BcryptDigest(p, salt) ==
    [ident |-> "2b", salt |-> salt, checksum |-> BcryptChecksum(BcryptKey(p), salt)]

\* digests that are not outputs of the hasher:
\*   "hashed" (tests/integration/test_user_repository.py:21), the empty
\*   string, and a bcrypt string cut short ("$2b$12$<salt>" with no checksum)
PlainHashed == [ident |-> "hashed", salt |-> 0, checksum |-> <<>>]
CutBcrypt == [ident |-> "2b", salt |-> 1, checksum |-> <<>>]
MalformedDigests == {PlainHashed, NoDigest, CutBcrypt}

WellFormedDigest(d) ==
    /\ d.ident = "2b"
    /\ Len(d.checksum) = 2

Returned(v) == [raised |-> "none", value |-> v]
Raised(e) == [raised |-> e, value |-> FALSE]

\* mutant: verify accepts every well-formed digest
verify_password_any(plain_password, hashed_password) ==
    IF hashed_password.ident # "2b" THEN Raised("UnknownHashError")
    ELSE IF ~WellFormedDigest(hashed_password) THEN Raised("ValueError")
    ELSE IF PasswordError(plain_password) # "none"
    THEN Raised(PasswordError(plain_password))
    ELSE Returned(TRUE)

\* pwd_context.verify(plain_password, hashed_password): identify the scheme,
\* parse the digest, hash the password with the digest's salt, compare.
verify_password(plain_password, hashed_password) ==
    IF hashed_password.ident # "2b" THEN Raised("UnknownHashError")
    ELSE IF ~WellFormedDigest(hashed_password) THEN Raised("ValueError")
    ELSE IF PasswordError(plain_password) # "none"
    THEN Raised(PasswordError(plain_password))
    ELSE Returned(BcryptChecksum(BcryptKey(plain_password), hashed_password.salt)
                    = hashed_password.checksum)

Verifies(p, d) == verify_password(p, d) = Returned(TRUE)

HashReturned(d) == [raised |-> "none", digest |-> d]
HashRaised(e) == [raised |-> e, digest |-> NoDigest]

\* mutant: a fixed salt
FreshSalt_fixed(used) == 1

\* the salt a call draws: one that no digest in `used` carries
FreshSalt(used) ==
    CHOOSE s \in 1..MaxSalts :
        /\ s \notin used
        /\ \A t \in 1..MaxSalts : t \notin used => s <= t

\* pwd_context.hash(password) with the salt the call drew
get_password_hash(password, salt) ==
    IF PasswordError(password) # "none" THEN HashRaised(PasswordError(password))
    ELSE HashReturned(BcryptDigest(password, salt))

----------------------------------------------------------------------------
(* Token codec: python-jose jwt.encode / jwt.decode                        *)

TicksPerSecond == 2                  \* clock ticks in one second
ACCESS_TOKEN_EXPIRE_MINUTES == 30    \* config/settings.py
SECRET_KEY == "configured-secret-of-32-characters"
ALGORITHM == "HS256"

DefaultTtl == ACCESS_TOKEN_EXPIRE_MINUTES * 60 * TicksPerSecond

\* timegm(d.utctimetuple()): whole seconds, the microseconds dropped
ToSeconds(ticks) == ticks \div TicksPerSecond

\* claim values, by JSON type
Str(s) == [t |-> "str", s |-> s, n |-> 0]
Num(n) == [t |-> "int", s |-> "", n |-> n]

NoClaims == [k \in {} |-> Str("")]

\* Optional[timedelta]
Omitted == [given |-> FALSE, ticks |-> 0]
Delta(ticks) == [given |-> TRUE, ticks |-> ticks]

\* `if expires_delta:` None and timedelta(0) are both falsy
Truthy(expires_delta) == expires_delta.given /\ expires_delta.ticks # 0

\* HMAC over the signing input: an injective function of key and input
Sign(key, header, payload) == <<key, header, payload>>

NoJwt == [kind |-> "none", header |-> [alg |-> "", typ |-> ""],
          payload |-> NoClaims, signature |-> <<>>]

\* jwt.encode(claims, key, algorithm)
jwt_encode(claims, key, algorithm) ==
    LET header == [alg |-> algorithm, typ |-> "JWT"] IN
    [kind |-> "jwt", header |-> header, payload |-> claims,
     signature |-> Sign(key, header, claims)]

\* mutant: the caller's expires_delta is ignored
create_access_token_default_only(data, expires_delta, t) ==
    LET expire == t + DefaultTtl
        to_encode == [k \in DOMAIN data \cup {"exp"} |->
                        IF k = "exp" THEN Num(ToSeconds(expire)) ELSE data[k]]
    IN jwt_encode(to_encode, SECRET_KEY, ALGORITHM)

\* create_access_token(data, expires_delta) called at time t
create_access_token(data, expires_delta, t) ==
    LET expire == IF Truthy(expires_delta) THEN t + expires_delta.ticks
                  ELSE t + DefaultTtl
        to_encode == [k \in DOMAIN data \cup {"exp"} |->
                        IF k = "exp" THEN Num(ToSeconds(expire)) ELSE data[k]]
    IN jwt_encode(to_encode, SECRET_KEY, ALGORITHM)

\* jose.jwt._validate_claims with the default options and no audience,
\* issuer, subject or access_token given: exp, aud and sub
ClaimsValid(claims, t) ==
    /\ "exp" \in DOMAIN claims =>
          /\ claims["exp"].t = "int"
          /\ ~(claims["exp"].n < ToSeconds(t))
    /\ "aud" \notin DOMAIN claims
    /\ "sub" \in DOMAIN claims => claims["sub"].t = "str"

\* the exp claim is a whole second that lies before the current whole second
Expired(claims, t) ==
    /\ "exp" \in DOMAIN claims
    /\ claims["exp"].t = "int"
    /\ claims["exp"].n < ToSeconds(t)

JwtReturned(payload) == [raised |-> "none", payload |-> payload]
JwtRaised(e) == [raised |-> e, payload |-> NoClaims]

\* jose.jwt.decode(token, key, algorithms) called at time t: the structure,
\* the header's alg, the signature, then the registered claims. JWSError and
\* JWSSignatureError are re-raised as JWTError.
jwt_decode(tok, key, algorithms, t) ==
    IF tok.kind # "jwt" THEN JwtRaised("JWTError")
    ELSE IF tok.header.alg \notin algorithms THEN JwtRaised("JWTError")
    ELSE IF tok.signature # Sign(key, tok.header, tok.payload)
    THEN JwtRaised("JWTError")
    ELSE IF Expired(tok.payload, t) THEN JwtRaised("ExpiredSignatureError")
    ELSE IF ~ClaimsValid(tok.payload, t) THEN JwtRaised("JWTClaimsError")
    ELSE JwtReturned(tok.payload)

\* jose.exceptions: ExpiredSignatureError and JWTClaimsError derive from JWTError
JWTErrors == {"JWTError", "ExpiredSignatureError", "JWTClaimsError"}

Invalid == [valid |-> FALSE, payload |-> NoClaims, raised |-> "none"]
Decoded(payload) == [valid |-> TRUE, payload |-> payload, raised |-> "none"]
DecodeRaised(e) == [valid |-> FALSE, payload |-> NoClaims, raised |-> e]

\* mutant: the signature is not verified
decode_access_token_unsigned(tok, t) ==
    IF tok.kind # "jwt" THEN Invalid
    ELSE IF tok.header.alg # ALGORITHM THEN Invalid
    ELSE IF Expired(tok.payload, t) \/ ~ClaimsValid(tok.payload, t) THEN Invalid
    ELSE Decoded(tok.payload)

\* mutant: only the base class's own instances are caught
decode_access_token_uncaught(tok, t) ==
    LET r == jwt_decode(tok, SECRET_KEY, {ALGORITHM}, t) IN
    IF r.raised = "none" THEN Decoded(r.payload)
    ELSE IF r.raised = "JWTError" THEN Invalid
    ELSE DecodeRaised(r.raised)

\* decode_access_token(token) called at time t: the payload, or None when
\* jwt.decode raises JWTError; any other exception reaches the caller
decode_access_token(tok, t) ==
    LET r == jwt_decode(tok, SECRET_KEY, {ALGORITHM}, t) IN
    IF r.raised = "none" THEN Decoded(r.payload)
    ELSE IF r.raised \in JWTErrors THEN Invalid
    ELSE DecodeRaised(r.raised)

----------------------------------------------------------------------------
(* Domain model and the relational user store                              *)

NoUser ==
    [id |-> None, email |-> "", hashed_password |-> NoDigest, full_name |-> "",
     is_active |-> FALSE, is_superuser |-> FALSE,
     created_at |-> None, updated_at |-> None]

\* core.models.user.User
User(id, email, hashed_password, full_name, is_active, is_superuser, created_at) ==
    [id |-> id, email |-> email, hashed_password |-> hashed_password,
     full_name |-> full_name, is_active |-> is_active,
     is_superuser |-> is_superuser, created_at |-> created_at,
     updated_at |-> None]

\* scalar_one_or_none() of a select by primary key
get_by_id(us, user_id) ==
    IF \E u \in us : u.id = user_id
    THEN CHOOSE u \in us : u.id = user_id
    ELSE NoUser

\* scalar_one_or_none() of a select by email
get_by_email(us, email) ==
    IF \E u \in us : u.email = email
    THEN CHOOSE u \in us : u.email = email
    ELSE NoUser

\* mutant: the email column without unique=True
UniqueViolation_none(us, email, own_id) == FALSE

\* Column(String(255), unique=True): the commit of a row whose email another
\* row holds violates the constraint
UniqueViolation(us, email, own_id) ==
    \E u \in us : u.email = email /\ u.id # own_id

StoreResult(raised, us, user) == [raised |-> raised, users |-> us, user |-> user]

\* mutant: create returns the User it was given, without the refresh that
\* loads the generated id and timestamps
create_no_refresh(us, user, new_id, t) ==
    IF UniqueViolation(us, user.email, None)
    THEN StoreResult("IntegrityError", us, NoUser)
    ELSE StoreResult("none",
                     us \cup {[user EXCEPT !.id = new_id, !.created_at = t,
                                           !.updated_at = t]},
                     user)

\* PostgresUserRepository.create: insert, commit, refresh, _to_domain.
\* id and the timestamps are column defaults (uuid4, utcnow).
create(us, user, new_id, t) ==
    IF UniqueViolation(us, user.email, None)
    THEN StoreResult("IntegrityError", us, NoUser)
    ELSE LET row == [id |-> new_id, email |-> user.email,
                     hashed_password |-> user.hashed_password,
                     full_name |-> user.full_name,
                     is_active |-> user.is_active,
                     is_superuser |-> user.is_superuser,
                     created_at |-> t, updated_at |-> t]
         IN StoreResult("none", us \cup {row}, row)

\* mutant: update that writes the whole object over the row
update_whole_row(us, user, t) ==
    LET db_user == get_by_id(us, user.id) IN
    IF db_user = NoUser THEN StoreResult("ValueError", us, NoUser)
    ELSE IF UniqueViolation(us, user.email, user.id)
    THEN StoreResult("IntegrityError", us, NoUser)
    ELSE LET row == [user EXCEPT !.updated_at = t]
         IN StoreResult("none", (us \ {db_user}) \cup {row}, row)

\* PostgresUserRepository.update
update(us, user, t) ==
    LET db_user == get_by_id(us, user.id) IN
    IF db_user = NoUser THEN StoreResult("ValueError", us, NoUser)
    ELSE IF UniqueViolation(us, user.email, user.id)
    THEN StoreResult("IntegrityError", us, NoUser)
    ELSE LET row == [db_user EXCEPT !.email = user.email,
                                    !.full_name = user.full_name,
                                    !.is_active = user.is_active,
                                    !.is_superuser = user.is_superuser,
                                    !.updated_at = t]
         IN StoreResult("none", (us \ {db_user}) \cup {row}, row)

\* mutant: delete that reports success without removing the row
delete_keeps_row(us, user_id) ==
    LET db_user == get_by_id(us, user_id) IN
    IF db_user = NoUser THEN [deleted |-> FALSE, users |-> us]
    ELSE [deleted |-> TRUE, users |-> us]

\* PostgresUserRepository.delete
delete(us, user_id) ==
    LET db_user == get_by_id(us, user_id) IN
    IF db_user = NoUser THEN [deleted |-> FALSE, users |-> us]
    ELSE [deleted |-> TRUE, users |-> us \ {db_user}]

\* PostgresUserRepository.list with the default window (skip 0, limit 100):
\* every row, in no stated order
list(us) == us

----------------------------------------------------------------------------
(* The two backends behind UserRepository                                  *)

\* the abstract methods of core.interfaces.repositories.UserRepository
UserRepositoryMethods ==
    {"get_by_id", "get_by_email", "create", "update", "delete", "list"}

\* what PostgresUserRepository defines of them
PostgresMethods ==
    {"get_by_id", "get_by_email", "create", "update", "delete", "list"}

\* the methods adapters/database/mongodb/repositories.py defines
MongoMethods == {"__init__", "get_by_id", "create", "_to_domain"}

BackendResult(raised, rows, user, deleted, listed) ==
    [raised |-> raised, rows |-> rows, user |-> user, deleted |-> deleted,
     listed |-> listed]

\* one call on PostgresUserRepository
postgres_call(method, us, user, user_id, new_id, t) ==
    CASE method \notin PostgresMethods ->
           BackendResult("AttributeError", us, NoUser, FALSE, {})
      [] method = "get_by_id" ->
           BackendResult("none", us, get_by_id(us, user_id), FALSE, {})
      [] method = "get_by_email" ->
           BackendResult("none", us, get_by_email(us, user.email), FALSE, {})
      [] method = "create" ->
           LET res == create(us, user, new_id, t)
           IN BackendResult(res.raised, res.users, res.user, FALSE, {})
      [] method = "update" ->
           LET res == update(us, user, t)
           IN BackendResult(res.raised, res.users, res.user, FALSE, {})
      [] method = "delete" ->
           LET res == delete(us, user_id)
           IN BackendResult("none", res.users, NoUser, res.deleted, {})
      [] method = "list" ->
           BackendResult("none", us, NoUser, FALSE, list(us))

\* what getting hold of a MongoUserRepository raises: instantiating a
\* class with abstract methods left raises TypeError
mongo_load ==
    IF ~(UserRepositoryMethods \subseteq MongoMethods) THEN "TypeError"
    ELSE "none"

\* MongoUserRepository._to_domain: is_superuser and updated_at are not read
mongo_to_domain(doc) ==
    User(doc.id, doc.email, doc.hashed_password, doc.full_name, doc.is_active,
         FALSE, doc.created_at)

\* one call on MongoUserRepository
mongo_call(method, docs, user, user_id, new_id) ==
    IF mongo_load # "none"
    THEN BackendResult(mongo_load, docs, NoUser, FALSE, {})
    ELSE IF method \notin MongoMethods
    THEN BackendResult("AttributeError", docs, NoUser, FALSE, {})
    ELSE IF method = "get_by_id"
    THEN BackendResult("none", docs,
                       IF \E d \in docs : d.id = user_id
                       THEN mongo_to_domain(CHOOSE d \in docs : d.id = user_id)
                       ELSE NoUser,
                       FALSE, {})
    ELSE IF "_to_document" \notin MongoMethods
    THEN BackendResult("AttributeError", docs, NoUser, FALSE, {})
    ELSE BackendResult("none", docs \cup {[user EXCEPT !.id = new_id]},
                       [user EXCEPT !.id = new_id], FALSE, {})

----------------------------------------------------------------------------
(* AuthService                                                             *)

AuthResult(raised, user) == [raised |-> raised, user |-> user]

\* mutant: register without the uniqueness check
register_check_skipped(us, email) == "none"

\* AuthService.register, lines 88-91: the uniqueness check
register_check(us, email) ==
    IF get_by_email(us, email) # NoUser THEN "DuplicateEmailError" ELSE "none"

\* a hashed_password column holding the password itself
Verbatim(password) == [ident |-> "", salt |-> 0, checksum |-> password]

\* mutant: register storing the password as it came
register_persist_plaintext(us, email, password, full_name, salt, new_id, t) ==
    create(us, User(None, email, Verbatim(password), full_name, TRUE, FALSE, None),
           new_id, t)

\* AuthService.register, lines 93-106: hash, build the User, persist it
register_persist(us, email, password, full_name, salt, new_id, t) ==
    LET h == get_password_hash(password, salt) IN
    IF h.raised # "none" THEN StoreResult(h.raised, us, NoUser)
    ELSE create(us, User(None, email, h.digest, full_name, TRUE, FALSE, None),
                new_id, t)

\* a persistence-layer fault (connectivity): SQLAlchemy's OperationalError
StoreFault == "OperationalError"

RegisterResult(raised, us, user, repo_calls) ==
    [raised |-> raised, users |-> us, user |-> user, repo_calls |-> repo_calls]

\* AuthService.register as one call, lines 88-106, over a store whose calls
\* named in faults fail: the repository calls it makes, in order, and its
\* outcome
register(us, email, password, full_name, salt, new_id, t, faults) ==
    IF "get_by_email" \in faults
    THEN RegisterResult(StoreFault, us, NoUser, <<"get_by_email">>)
    ELSE IF register_check(us, email) # "none"
    THEN RegisterResult(register_check(us, email), us, NoUser, <<"get_by_email">>)
    ELSE IF get_password_hash(password, salt).raised # "none"
    THEN RegisterResult(get_password_hash(password, salt).raised, us, NoUser,
                        <<"get_by_email">>)
    ELSE IF "create" \in faults
    THEN RegisterResult(StoreFault, us, NoUser, <<"get_by_email", "create">>)
    ELSE LET res == register_persist(us, email, password, full_name, salt, new_id, t)
         IN RegisterResult(res.raised, res.users, res.user,
                           <<"get_by_email", "create">>)

\* mutant: authenticate without the is_active check
authenticate_no_active(us, email, password) ==
    LET user == get_by_email(us, email) IN
    IF user = NoUser THEN AuthResult("none", NoUser)
    ELSE LET v == verify_password(password, user.hashed_password) IN
         IF v.raised # "none" THEN AuthResult(v.raised, NoUser)
         ELSE IF ~v.value THEN AuthResult("none", NoUser)
         ELSE AuthResult("none", user)

\* AuthService.authenticate
authenticate(us, email, password) ==
    LET user == get_by_email(us, email) IN
    IF user = NoUser THEN AuthResult("none", NoUser)
    ELSE LET v == verify_password(password, user.hashed_password) IN
         IF v.raised # "none" THEN AuthResult(v.raised, NoUser)
         ELSE IF ~v.value THEN AuthResult("none", NoUser)
         ELSE IF ~user.is_active THEN AuthResult("none", NoUser)
         ELSE AuthResult("none", user)

\* mutant: a token for a fixed subject
AuthService_create_access_token_fixed(user_id, t) ==
    create_access_token("sub" :> Str("0"), Delta(DefaultTtl), t)

\* AuthService.create_access_token(user_id) called at time t
AuthService_create_access_token(user_id, t) ==
    create_access_token("sub" :> Str(user_id), Delta(DefaultTtl), t)

----------------------------------------------------------------------------
(* API layer: api/v1/dependencies.py and api/v1/endpoints                  *)

\* _to_domain: id = str(db_user.id)
IdStr(id) == ToString(id)

\* the primary key that a string compares equal to in `UserModel.id == user_id`
IdOfStr(s) ==
    IF \E i \in 1..(MaxIds + 1) : IdStr(i) = s
    THEN CHOOSE i \in 1..(MaxIds + 1) : IdStr(i) = s
    ELSE None

NoUserResponse ==
    [id |-> "", email |-> "", full_name |-> "", is_active |-> FALSE,
     created_at |-> None]

\* UserResponse.from_domain
UserResponse(user) ==
    [id |-> IdStr(user.id), email |-> user.email, full_name |-> user.full_name,
     is_active |-> user.is_active, created_at |-> user.created_at]

\* what a dependency hands on: the resolved user, or the HTTPException raised
Resolved(user) ==
    [status |-> 200, detail |-> "", www_authenticate |-> FALSE, user |-> user]
HTTPException(status_code, detail, www_authenticate) ==
    [status |-> status_code, detail |-> detail,
     www_authenticate |-> www_authenticate, user |-> NoUser]

\* an exception no handler catches: Starlette answers 500
ServerError == HTTPException(500, "Internal Server Error", FALSE)

\* mutant: the is_active check left out
get_current_user_no_active(us, tok, t) ==
    LET payload == decode_access_token(tok, t) IN
    IF payload.raised # "none" THEN ServerError
    ELSE IF ~payload.valid
    THEN HTTPException(401, "Invalid authentication credentials", TRUE)
    ELSE IF "sub" \notin DOMAIN payload.payload
    THEN HTTPException(401, "Invalid authentication credentials", FALSE)
    ELSE LET user == get_by_id(us, IdOfStr(payload.payload["sub"].s)) IN
         IF user = NoUser THEN HTTPException(401, "User not found", FALSE)
         ELSE Resolved(user)

\* mutant: a token whose user the store does not hold is trusted
get_current_user_trusting(us, tok, t) ==
    LET payload == decode_access_token(tok, t) IN
    IF payload.raised # "none" THEN ServerError
    ELSE IF ~payload.valid
    THEN HTTPException(401, "Invalid authentication credentials", TRUE)
    ELSE IF "sub" \notin DOMAIN payload.payload
    THEN HTTPException(401, "Invalid authentication credentials", FALSE)
    ELSE LET user == get_by_id(us, IdOfStr(payload.payload["sub"].s)) IN
         IF user = NoUser
         THEN Resolved(User(IdOfStr(payload.payload["sub"].s), "", NoDigest,
                            "", TRUE, FALSE, None))
         ELSE IF ~user.is_active THEN HTTPException(403, "Inactive user", FALSE)
         ELSE Resolved(user)

\* get_current_user(credentials, user_repo) called at time t
get_current_user(us, tok, t) ==
    LET payload == decode_access_token(tok, t) IN
    IF payload.raised # "none" THEN ServerError
    ELSE IF ~payload.valid
    THEN HTTPException(401, "Invalid authentication credentials", TRUE)
    ELSE IF "sub" \notin DOMAIN payload.payload
    THEN HTTPException(401, "Invalid authentication credentials", FALSE)
    ELSE LET user == get_by_id(us, IdOfStr(payload.payload["sub"].s)) IN
         IF user = NoUser THEN HTTPException(401, "User not found", FALSE)
         ELSE IF ~user.is_active THEN HTTPException(403, "Inactive user", FALSE)
         ELSE Resolved(user)

\* mutant: the is_superuser check left out
get_current_active_superuser_any(us, tok, t) == get_current_user(us, tok, t)

\* get_current_active_superuser(current_user = Depends(get_current_user))
get_current_active_superuser(us, tok, t) ==
    LET current_user == get_current_user(us, tok, t) IN
    IF current_user.status # 200 THEN current_user
    ELSE IF ~current_user.user.is_superuser
    THEN HTTPException(403, "Not enough permissions", FALSE)
    ELSE current_user

\* the response of the login endpoint
LoginResponse(status_code, detail, www_authenticate, access_token) ==
    [status |-> status_code, detail |-> detail,
     www_authenticate |-> www_authenticate, access_token |-> access_token,
     token_type |-> IF status_code = 200 THEN "bearer" ELSE ""]

\* mutant: login that rejects every request
login_always_401(us, email, password, t) ==
    LoginResponse(401, "Incorrect email or password", TRUE, NoJwt)

\* endpoints/auth.py login(data, auth_service) called at time t
login(us, email, password, t) ==
    LET r == authenticate(us, email, password) IN
    IF r.raised # "none"
    THEN LoginResponse(500, "Internal Server Error", FALSE, NoJwt)
    ELSE IF r.user = NoUser
    THEN LoginResponse(401, "Incorrect email or password", TRUE, NoJwt)
    ELSE LoginResponse(200, "", FALSE,
                       AuthService_create_access_token(IdStr(r.user.id), t))

\* the exceptions of AuthService.register that derive from ValueError:
\* passlib's PasswordValueError family
ValueErrors == {"ValueError", "NullPasswordError", "PasswordSizeError"}

\* core.exceptions.DuplicateEmailError: a failure the caller recovers from
\* and the API rejects with its reason, that is a ValueError carrying its
\* message
DuplicateEmailError == [name |-> "DuplicateEmailError", bases |-> {"ValueError"}]

\* isinstance(e, ValueError), as `except ValueError` decides it
IsValueError(e) ==
    \/ e \in ValueErrors
    \/ e = DuplicateEmailError.name /\ "ValueError" \in DuplicateEmailError.bases

\* str(e): AuthService.register line 91 words the duplicate; the hasher's
\* errors are told apart by their class
Message(e, email) ==
    IF e = DuplicateEmailError.name
    THEN "Email " \o email \o " is already registered"
    ELSE e

RegisterResponse(status_code, detail, body) ==
    [status |-> status_code, detail |-> detail, body |-> body]

\* mutant: the register endpoint without its try/except
register_endpoint_uncaught(res, email) ==
    IF res.raised = "none" THEN RegisterResponse(201, "", UserResponse(res.user))
    ELSE RegisterResponse(ServerError.status, ServerError.detail, NoUserResponse)

\* endpoints/auth.py register: 201 with the created user; a ValueError becomes
\* 400 with str(e) as detail; anything else is left to the framework
register_endpoint(res, email) ==
    IF res.raised = "none" THEN RegisterResponse(201, "", UserResponse(res.user))
    ELSE IF IsValueError(res.raised)
    THEN RegisterResponse(400, Message(res.raised, email), NoUserResponse)
    ELSE RegisterResponse(ServerError.status, ServerError.detail, NoUserResponse)

----------------------------------------------------------------------------
(* Cache (core/interfaces CacheRepository, adapters/cache RedisCache)      *)

\* client.get of a key that is not there (None)
NoValue == [json |-> [absent |-> TRUE], from |-> NoUser]

UserKey(user_id) == "user:" \o IdStr(user_id)
CartKey(user_id) == "cart:" \o IdStr(user_id)
CacheKeys ==
    {UserKey(id) : id \in 1..MaxIds} \cup {CartKey(id) : id \in 1..MaxIds}

\* RedisCache.get, set, delete
cache_get(c, key) == c[key]
cache_set(c, key, value) == [c EXCEPT ![key] = value]
cache_delete(c, key) == [c EXCEPT ![key] = NoValue]

----------------------------------------------------------------------------
(* UserService (core/services/user_service.py)                             *)

\* the dict get_user_by_id caches, lines 37-42
user_dict(user) ==
    [id |-> user.id, email |-> user.email, full_name |-> user.full_name,
     is_active |-> user.is_active]

\* json.dumps of the dict, as stored: json is the text's content; from
\* remembers the User it was made from (history, not part of the value)
Cached(user) == [json |-> user_dict(user), from |-> user]

\* the fields User(...) cannot be built without (no default in the dataclass)
UserRequired == {"id", "email", "hashed_password", "full_name"}

ServiceResult(raised, user) == [raised |-> raised, user |-> user]

\* User(**json.loads(cached_data)), lines 29-30: a missing required field is
\* a TypeError, a missing optional one takes its default
user_from_cache(value) ==
    LET d == value.json IN
    IF ~(UserRequired \subseteq DOMAIN d) THEN ServiceResult("TypeError", NoUser)
    ELSE ServiceResult("none",
            User(d.id, d.email, d.hashed_password, d.full_name,
                 IF "is_active" \in DOMAIN d THEN d.is_active ELSE TRUE,
                 IF "is_superuser" \in DOMAIN d THEN d.is_superuser ELSE FALSE,
                 IF "created_at" \in DOMAIN d THEN d.created_at ELSE None))

----------------------------------------------------------------------------
(* OrderService (core/services/order_service.py)                           *)

MaxOrders == 2      \* orders placed in one run

\* the catalogue behind product_repo: one product in stock, one that has
\* run out; any other id is unknown
Products ==
    {[id |-> "p1", price |-> 10, in_stock |-> TRUE],
     [id |-> "p2", price |-> 5, in_stock |-> FALSE]}

NoProduct == [id |-> "", price |-> 0, in_stock |-> FALSE]

\* product_repo.get_by_id: the product with that id, or None
product_get_by_id(product_id) ==
    IF \E pr \in Products : pr.id = product_id
    THEN CHOOSE pr \in Products : pr.id = product_id
    ELSE NoProduct

NoOrder ==
    [id |-> None, user_id |-> None, product_ids |-> <<>>, total_price |-> 0,
     status |-> ""]

\* Order(id=None, ...), lines 47-53
Order(user_id, product_ids, total_price) ==
    [id |-> None, user_id |-> user_id, product_ids |-> product_ids,
     total_price |-> total_price, status |-> "pending"]

\* order_repo.create: the order is stored under a new id and returned
order_create(os, order) ==
    LET created == [order EXCEPT !.id = Cardinality(os) + 1]
    IN [orders |-> os \cup {created}, order |-> created]

\* mutant: create_order without the check of the user
validate_user_any(user) == "none"

\* create_order, lines 32-34
validate_user(user) ==
    IF user = NoUser \/ ~user.is_active THEN "ValueError" ELSE "none"

RECURSIVE SumPrices(_)
SumPrices(products) ==
    IF products = <<>> THEN 0
    ELSE Head(products).price + SumPrices(Tail(products))

\* create_order, lines 37-44: the products fetched in order, until one is
\* not found
validate_products(product_ids) ==
    LET found == [i \in DOMAIN product_ids |-> product_get_by_id(product_ids[i])]
    IN IF \E i \in DOMAIN found : found[i] = NoProduct
       THEN [raised |-> "ValueError", products |-> <<>>, total_price |-> 0]
       ELSE [raised |-> "none", products |-> found,
             total_price |-> SumPrices(found)]

----------------------------------------------------------------------------
(* State machine: requests against one store                               *)

IdleCall ==
    [pc |-> "idle", email |-> "", peer |-> "", creates |-> 0,
     raised |-> "none", user_id |-> None]

NoOp ==
    [op |-> "init", email |-> "", password |-> <<>>, id |-> None,
     arg |-> NoUser, raised |-> "none", user |-> NoUser, deleted |-> FALSE,
     faults |-> {}, repo_calls |-> <<>>]

NoHasher == [calls |-> <<>>, verified |-> <<>>]
NoToken ==
    [state |-> "none", origin |-> "", claims |-> NoClaims, ttl |-> Omitted,
     iat |-> 0, tok |-> NoJwt, decoded_at |-> 0, dec |-> Invalid]

NoResp ==
    [op |-> "none", email |-> "", password |-> <<>>, user_id |-> "",
     presented |-> NoJwt, at |-> 0, status |-> 0, detail |-> "",
     www_authenticate |-> FALSE, current_user |-> NoUser,
     body |-> NoUserResponse, access_token |-> NoJwt, executed |-> FALSE]

NoMongo ==
    [docs |-> {}, op |-> "init",
     postgres |-> BackendResult("none", {}, NoUser, FALSE, {}),
     mongo |-> BackendResult("none", {}, NoUser, FALSE, {})]
EmptyCache == [k \in CacheKeys |-> NoValue]
NoServiceCall ==
    [op |-> "none", pc |-> "idle", user_id |-> None, read |-> NoUser,
     raised |-> "none", user |-> NoUser, hit |-> FALSE, first |-> NoUser]
NoOrderCall ==
    [pc |-> "idle", user_id |-> None, product_ids |-> <<>>, total_price |-> 0,
     raised |-> "none", order |-> NoOrder, cart_deleted |-> FALSE]

SaltsInUse(us) == {u.hashed_password.salt : u \in us}

Init ==
    /\ users = {}
    /\ nextId = 1
    /\ now = 0
    /\ reg = [p \in Procs |-> IdleCall]
    /\ last = NoOp
    /\ hasher = NoHasher
    /\ token = NoToken
    /\ bearer = {}
    /\ resp = NoResp
    /\ mongo = NoMongo
    /\ cache = EmptyCache
    /\ calls = [p \in Procs |-> NoServiceCall]
    /\ orders = {}
    /\ order_call = NoOrderCall

\* register, up to the first suspension point: await get_by_email, the check
RegisterLookup(p, email) ==
    /\ reg[p].pc = "idle"
    /\ LET r == register_check(users, email) IN
       reg' = [reg EXCEPT ![p] =
                 [IdleCall EXCEPT !.pc = IF r = "none" THEN "looked" ELSE "done",
                                  !.email = email,
                                  !.raised = r]]
    /\ last' = [NoOp EXCEPT !.op = "register_lookup", !.email = email]
    /\ UNCHANGED <<users, nextId, now, hasher, token, bearer, resp, mongo, cache, calls, orders, order_call>>

\* register, from the hash to the return of await create
RegisterCreate(p) ==
    /\ reg[p].pc = "looked"
    /\ nextId <= MaxIds
    /\ \E s \in 1..MaxSalts : s \notin SaltsInUse(users)
    /\ LET salt == FreshSalt(SaltsInUse(users))
           h == get_password_hash(RegPassword(p), salt)
           res == register_persist(users, reg[p].email, RegPassword(p),
                                   RegName(p), salt, nextId, now)
           racing == {q \in Procs \ {p} :
                        reg[q].pc = "looked" /\ reg[q].email = reg[p].email}
       IN /\ users' = res.users
          /\ nextId' = IF res.raised = "none" THEN nextId + 1 ELSE nextId
          /\ reg' = [reg EXCEPT ![p] =
                       [@ EXCEPT !.pc = "done",
                                 !.peer = IF racing = {} THEN ""
                                          ELSE CHOOSE q \in racing : TRUE,
                                 !.creates = IF h.raised = "none" THEN 1 ELSE 0,
                                 !.raised = res.raised,
                                 !.user_id = res.user.id]]
          /\ last' = [NoOp EXCEPT !.op = "register_create",
                                  !.email = reg[p].email,
                                  !.password = RegPassword(p),
                                  !.raised = res.raised,
                                  !.user = res.user]
    /\ UNCHANGED <<now, hasher, token, bearer, resp, mongo, cache, calls, orders, order_call>>

\* the caller takes register's result; the slot serves the next request
RegisterReturn(p) ==
    /\ reg[p].pc = "done"
    /\ reg' = [q \in Procs |->
                 IF q = p THEN IdleCall
                 ELSE IF reg[q].peer = p THEN [reg[q] EXCEPT !.peer = ""]
                 ELSE reg[q]]
    /\ last' = [NoOp EXCEPT !.op = "register_return"]
    /\ UNCHANGED <<users, nextId, now, hasher, token, bearer, resp, mongo, cache, calls, orders, order_call>>

Authenticate(email, password) ==
    /\ LET r == authenticate(users, email, password) IN
       last' = [NoOp EXCEPT !.op = "authenticate", !.email = email,
                            !.password = password,
                            !.raised = r.raised, !.user = r.user]
    /\ UNCHANGED <<users, nextId, now, reg, hasher, token, bearer, resp, mongo, cache, calls, orders, order_call>>

\* The User objects a caller hands to update here: a user read from the store
\* with its email changed or its is_active flipped, or one whose id no row has.
UpdateInputs(us) ==
    {[u EXCEPT !.email = e] : u \in us, e \in Emails}
    \cup {[u EXCEPT !.is_active = ~u.is_active] : u \in us}
    \cup {User(id, e, NoDigest, "A", TRUE, FALSE, None) :
            id \in {i \in 1..MaxIds : get_by_id(us, i) = NoUser}, e \in Emails}

Update(user) ==
    /\ LET res == update(users, user, now) IN
       /\ users' = res.users
       /\ last' = [NoOp EXCEPT !.op = "update", !.id = user.id, !.arg = user,
                               !.raised = res.raised, !.user = res.user]
    /\ UNCHANGED <<nextId, now, reg, hasher, token, bearer, resp, mongo, cache, calls, orders, order_call>>

Delete(id) ==
    /\ LET res == delete(users, id) IN
       /\ users' = res.users
       /\ last' = [NoOp EXCEPT !.op = "delete", !.id = id,
                               !.deleted = res.deleted]
    /\ UNCHANGED <<nextId, now, reg, hasher, token, bearer, resp, mongo, cache, calls, orders, order_call>>

Next ==
    \/ \E p \in Procs, email \in Emails : RegisterLookup(p, email)
    \/ \E p \in Procs : RegisterCreate(p)
    \/ \E p \in Procs : RegisterReturn(p)
    \/ \E email \in Emails, password \in LoginPasswords :
          Authenticate(email, password)
    \/ \E user \in UpdateInputs(users) : Update(user)
    \/ \E id \in 1..MaxIds : Delete(id)

Spec == Init /\ [][Next]_vars

----------------------------------------------------------------------------
(* The credential hasher on its own: hash a plaintext, hash it again,      *)
(* verify any plaintext against a digest; and a store whose rows were      *)
(* written by PostgresUserRepository.create directly, as                   *)
(* tests/integration/test_user_repository.py does with "hashed".           *)

Pad(n) == [i \in 1..n |-> "a"]
Tails == {<<>>, <<"a">>, <<"b">>, <<NUL>>}
Plaintexts ==
    {Pad(n) \o t : n \in {0, BcryptMaxBytes - 1, BcryptMaxBytes}, t \in Tails}
    \cup {Pad(MaxPasswordSize + 1)}

ReturnedDigests(h) ==
    {h.calls[i].out.digest : i \in {j \in 1..Len(h.calls) : h.calls[j].out.raised = "none"}}

StoredDigests == MalformedDigests \cup {BcryptDigest(Pass123, 1)}

HashCall(p) ==
    /\ Len(hasher.calls) < 2
    /\ hasher.calls # <<>> => p = hasher.calls[1].p
    /\ LET salt == FreshSalt({d.salt : d \in ReturnedDigests(hasher)}) IN
       hasher' = [hasher EXCEPT !.calls =
                    Append(@, [p |-> p, out |-> get_password_hash(p, salt)])]
    /\ UNCHANGED <<users, nextId, now, reg, last, token, bearer, resp, mongo, cache, calls, orders, order_call>>

VerifyCall(p, d) ==
    /\ hasher' = [hasher EXCEPT !.verified =
                    <<[p |-> p, d |-> d, out |-> verify_password(p, d)]>>]
    /\ UNCHANGED <<users, nextId, now, reg, last, token, bearer, resp, mongo, cache, calls, orders, order_call>>

\* repo.create(User(id=None, email=..., hashed_password=d, full_name=...))
DirectCreate(email, d) ==
    /\ nextId <= MaxIds
    /\ LET res == create(users, User(None, email, d, "A", TRUE, FALSE, None),
                         nextId, now)
       IN /\ users' = res.users
          /\ nextId' = IF res.raised = "none" THEN nextId + 1 ELSE nextId
          /\ last' = [NoOp EXCEPT !.op = "create", !.email = email,
                                  !.raised = res.raised, !.user = res.user]
    /\ UNCHANGED <<now, reg, hasher, token, bearer, resp, mongo, cache, calls, orders, order_call>>

NextHasher ==
    \/ \E p \in Plaintexts : HashCall(p)
    \/ \E p \in Plaintexts, d \in MalformedDigests \cup ReturnedDigests(hasher) :
          VerifyCall(p, d)
    \/ \E d \in StoredDigests : DirectCreate("a@x.com", d)
    \/ \E password \in {Pass123, Wrong} : Authenticate("a@x.com", password)

SpecHasher == Init /\ [][NextHasher]_vars

----------------------------------------------------------------------------
(* The token codec on its own: encode one token, let time pass, decode it  *)

ClaimsInputs ==
    { NoClaims,
      "sub" :> Str("1"),
      ("sub" :> Str("1")) @@ ("role" :> Str("admin")),
      ("sub" :> Num(1)) @@ ("role" :> Str("admin")),
      ("sub" :> Str("1")) @@ ("exp" :> Num(7)),
      ("sub" :> Str("1")) @@ ("aud" :> Str("api")) }

TtlInputs == {Omitted, Delta(0), Delta(1), Delta(TicksPerSecond), Delta(3)}

EncodeCall(claims, ttl) ==
    /\ token.state = "none"
    /\ token' = [NoToken EXCEPT !.state = "encoded", !.origin = "encode",
                                !.claims = claims,
                                !.ttl = ttl, !.iat = now,
                                !.tok = create_access_token(claims, ttl, now)]
    /\ UNCHANGED <<users, nextId, now, reg, last, hasher, bearer, resp, mongo, cache, calls, orders, order_call>>

\* Token strings that reach decode_access_token without having been made by
\* create_access_token: signed with another secret, signed with the configured
\* secret under another algorithm, an issued token whose payload was edited
\* after signing, and a string that is no JWT at all.
OtherSecret == "some-other-secret-of-32-characters"
OtherAlgorithm == "HS512"

SignedWith(key, algorithm, claims, ttl, t) ==
    jwt_encode(create_access_token(claims, ttl, t).payload, key, algorithm)

Tampered(tok) ==
    [tok EXCEPT !.payload = [k \in DOMAIN tok.payload \cup {"sub"} |->
                               IF k = "sub" THEN Str("2") ELSE tok.payload[k]]]

Garbage == [NoJwt EXCEPT !.kind = "malformed"]

ForgedClaims == {"sub" :> Str("1"), ("sub" :> Str("1")) @@ ("role" :> Str("admin"))}

ForeignTokens(t) ==
    {SignedWith(OtherSecret, ALGORITHM, c, ttl, t) :
        c \in ForgedClaims, ttl \in TtlInputs}
    \cup {SignedWith(SECRET_KEY, OtherAlgorithm, c, Omitted, t) : c \in ForgedClaims}
    \cup {Tampered(create_access_token(c, Omitted, t)) : c \in ForgedClaims}
    \cup {Garbage}

\* a client presents a token string of its own making
PresentCall(tok) ==
    /\ token.state = "none"
    /\ token' = [NoToken EXCEPT !.state = "presented", !.origin = "client",
                                !.iat = now, !.tok = tok]
    /\ UNCHANGED <<users, nextId, now, reg, last, hasher, bearer, resp, mongo, cache, calls, orders, order_call>>

DecodeCall ==
    /\ token.state # "none"
    /\ token' = [token EXCEPT !.state = "decoded", !.decoded_at = now,
                              !.dec = decode_access_token(token.tok, now)]
    /\ UNCHANGED <<users, nextId, now, reg, last, hasher, bearer, resp, mongo, cache, calls, orders, order_call>>

\* time passes: one tick, or the default lifetime of a token at once
Tick(d) ==
    /\ now + d <= DefaultTtl + MaxSkew
    /\ d = 1 => (now % DefaultTtl) < MaxSkew
    /\ now' = now + d
    /\ UNCHANGED <<users, nextId, reg, last, hasher, token, bearer, resp, mongo, cache, calls, orders, order_call>>

NextToken ==
    \/ \E claims \in ClaimsInputs, ttl \in TtlInputs : EncodeCall(claims, ttl)
    \/ \E tok \in ForeignTokens(now) : PresentCall(tok)
    \/ DecodeCall
    \/ \E d \in {1, DefaultTtl} : Tick(d)

SpecToken == Init /\ [][NextToken]_vars

----------------------------------------------------------------------------
(* The HTTP API over one store: register, login, requests that carry a     *)
(* bearer token, and the store changing underneath (users deactivated,     *)
(* promoted, deleted) while time passes. One email registers, so that one  *)
(* row is live at a time; the clock is at the start, one tick later, or     *)
(* past the lifetime of the tokens issued before.                           *)

MaxBearer == 1       \* clients keep at most this many access tokens

ApiPasswords == {Pass123, NulPassword}
ApiLoginPasswords == {Pass123, Wrong, NulPassword}

\* GET /api/v1/users/me: the profile of the user get_current_user resolved
get_me(current_user) == UserResponse(current_user)

\* POST /api/v1/auth/register served whole: AuthService.register, then the
\* endpoint's mapping of its outcome
ApiRegister(email, password) ==
    /\ nextId <= MaxIds
    /\ \E s \in 1..MaxSalts : s \notin SaltsInUse(users)
    /\ LET chk == register_check(users, email)
           res == IF chk # "none" THEN StoreResult(chk, users, NoUser)
                  ELSE register_persist(users, email, password, "A",
                                        FreshSalt(SaltsInUse(users)), nextId, now)
           out == register_endpoint(res, email)
       IN /\ users' = res.users
          /\ nextId' = IF res.raised = "none" THEN nextId + 1 ELSE nextId
          /\ resp' = [NoResp EXCEPT
                        !.op = "register", !.email = email,
                        !.password = password, !.at = now,
                        !.status = out.status, !.detail = out.detail,
                        !.body = out.body]
    /\ UNCHANGED <<now, reg, last, hasher, token, bearer, mongo, cache, calls, orders, order_call>>

\* the client keeps the token of a successful login
ApiLogin(email, password) ==
    /\ LET r == login(users, email, password, now) IN
       /\ r.status = 200 =>
             (r.access_token \in bearer \/ Cardinality(bearer) < MaxBearer)
       /\ bearer' = IF r.status = 200 THEN bearer \cup {r.access_token} ELSE bearer
       /\ resp' = [NoResp EXCEPT
                     !.op = "login", !.email = email, !.password = password,
                     !.at = now, !.status = r.status, !.detail = r.detail,
                     !.www_authenticate = r.www_authenticate,
                     !.access_token = r.access_token]
    /\ UNCHANGED <<users, nextId, now, reg, last, hasher, token, mongo, cache, calls, orders, order_call>>

\* AuthService.create_access_token called for an id, stored or not
IssueToken(id) ==
    /\ LET tok == AuthService_create_access_token(IdStr(id), now) IN
       /\ tok \in bearer \/ Cardinality(bearer) < MaxBearer
       /\ bearer' = bearer \cup {tok}
       /\ resp' = [NoResp EXCEPT !.op = "issue", !.user_id = IdStr(id),
                                 !.at = now, !.access_token = tok]
    /\ UNCHANGED <<users, nextId, now, reg, last, hasher, token, mongo, cache, calls, orders, order_call>>

\* the tokens a request can carry: the ones login handed out, one signed with
\* another secret, one that the codec signed without a "sub", and a string
\* that is no JWT
Presentable(t) ==
    bearer
    \cup {SignedWith(OtherSecret, ALGORITHM, "sub" :> Str("1"), Omitted, t),
          create_access_token("role" :> Str("admin"), Omitted, t),
          Garbage}

\* a request to an endpoint that depends on get_current_user
ApiMe(tok) ==
    /\ LET d == get_current_user(users, tok, now) IN
       resp' = [NoResp EXCEPT
                  !.op = "me", !.presented = tok, !.at = now,
                  !.status = d.status, !.detail = d.detail,
                  !.www_authenticate = d.www_authenticate,
                  !.current_user = d.user,
                  !.body = IF d.status = 200 THEN get_me(d.user)
                           ELSE NoUserResponse]
    /\ UNCHANGED <<users, nextId, now, reg, last, hasher, token, bearer, mongo, cache, calls, orders, order_call>>

\* endpoints/users.py list_users: its body runs when the dependency returns
ApiListUsers(tok) ==
    /\ LET d == get_current_active_superuser(users, tok, now) IN
       resp' = [NoResp EXCEPT
                  !.op = "list", !.presented = tok, !.at = now,
                  !.status = d.status, !.detail = d.detail,
                  !.www_authenticate = d.www_authenticate,
                  !.current_user = d.user,
                  !.executed = (d.status = 200)]
    /\ UNCHANGED <<users, nextId, now, reg, last, hasher, token, bearer, mongo, cache, calls, orders, order_call>>

\* the User objects handed to update here: a stored user with is_active or
\* is_superuser flipped
FlagPatches(us) ==
    {[u EXCEPT !.is_active = ~u.is_active] : u \in us}
    \cup {[u EXCEPT !.is_superuser = ~u.is_superuser] : u \in us}

StoreUpdate(user) ==
    /\ users' = update(users, user, now).users
    /\ resp' = NoResp
    /\ UNCHANGED <<nextId, now, reg, last, hasher, token, bearer, mongo, cache, calls, orders, order_call>>

StoreDelete(id) ==
    /\ get_by_id(users, id) # NoUser
    /\ users' = delete(users, id).users
    /\ resp' = NoResp
    /\ UNCHANGED <<nextId, now, reg, last, hasher, token, bearer, mongo, cache, calls, orders, order_call>>

NextApi ==
    \/ \E password \in ApiPasswords : ApiRegister("a@x.com", password)
    \/ \E email \in Emails, password \in ApiLoginPasswords :
          ApiLogin(email, password)
    \/ \E id \in 1..MaxIds : IssueToken(id)
    \/ \E tok \in Presentable(now) : ApiMe(tok)
    \/ \E tok \in Presentable(now) : ApiListUsers(tok)
    \/ \E user \in FlagPatches(users) : StoreUpdate(user)
    \/ \E id \in 1..MaxIds : StoreDelete(id)
    \/ \E d \in {1, DefaultTtl + TicksPerSecond} : now < d /\ Tick(d)

SpecApi == Init /\ [][NextApi]_vars

----------------------------------------------------------------------------
(* Claims about AuthService and the user store, checked under Spec         *)

WithEmail(us, email) == {u \in us : u.email = email}

\* C1: a register call whose email the store already holds ends with
\* DuplicateEmailError, never calls create, and leaves the store as it was:
\* exactly one user with that email, the one of the first registration.
C1_DuplicateRegisterNoSideEffect ==
    [][\A p \in Procs :
          (/\ reg[p].pc = "idle"
           /\ reg'[p].pc # "idle"
           /\ WithEmail(users, reg'[p].email) # {})
          => (/\ reg'[p].pc = "done"
              /\ reg'[p].raised = "DuplicateEmailError"
              /\ reg'[p].creates = 0
              /\ users' = users
              /\ Cardinality(WithEmail(users', reg'[p].email)) = 1)]_vars

\* C1 witness: r1 registered a@x.com with Pass123!, r2's call for the same
\* email ended with DuplicateEmailError and the stored user is r1's.
C1_Witness ==
    /\ reg["r2"].pc = "done"
    /\ reg["r2"].email = "a@x.com"
    /\ reg["r2"].raised = "DuplicateEmailError"
    /\ reg["r2"].creates = 0
    /\ \E u \in users : /\ u.email = "a@x.com"
                        /\ u.full_name = "A"
                        /\ Verifies(Pass123, u.hashed_password)

\* C2: no two stored users have the same email.
C2_EmailUnique ==
    \A u1 \in users, u2 \in users : u1.email = u2.email => u1 = u2

\* C2 witness: with two users stored, an update that would have given one of
\* them the other's email was refused by the store.
C2_Witness ==
    /\ Cardinality(users) = 2
    /\ last.op = "update"
    /\ last.raised = "IntegrityError"

\* C3: of two register calls for one email that both looked the email up before
\* either created, one returns a User, the other fails with
\* DuplicateEmailError, and the store holds exactly one user with that email.
C3_ConcurrentRegister ==
    \A p \in Procs, q \in Procs :
        (/\ p # q
         /\ reg[p].pc = "done"
         /\ reg[q].pc = "done"
         /\ reg[p].peer = q)
        => (/\ {reg[p].raised, reg[q].raised} = {"none", "DuplicateEmailError"}
            /\ Cardinality(WithEmail(users, reg[p].email)) = 1)

\* C4: a register call that succeeds adds exactly one user and returns it:
\* the given email and full_name, active, not superuser, a hash that verifies
\* against the given password, id and created_at set.
C4_RegisterSuccess ==
    [][\A p \in Procs :
          (/\ reg[p].pc = "looked"
           /\ reg'[p].pc = "done"
           /\ reg'[p].raised = "none")
          => LET u == last'.user IN
             /\ WithEmail(users, reg[p].email) = {}
             /\ u \notin users
             /\ users' = users \cup {u}
             /\ u.email = reg[p].email
             /\ u.full_name = RegName(p)
             /\ u.is_active
             /\ ~u.is_superuser
             /\ verify_password(RegPassword(p), u.hashed_password) = Returned(TRUE)
             /\ u.id # None
             /\ u.created_at # None
             /\ reg'[p].user_id = u.id]_vars

\* C4 witness: a register call has returned a user that is in the store.
C4_Witness ==
    \E p \in Procs :
        /\ reg[p].pc = "done"
        /\ reg[p].raised = "none"
        /\ last.op = "register_create"
        /\ last.user \in users
        /\ last.user.id = reg[p].user_id

\* C5: authenticate returns a user exactly when the store holds a user with
\* that email whose hash the password verifies against and who is active, and
\* then it returns that stored user; otherwise it returns none; in
\* particular it does not raise.
C5_AuthenticateIff ==
    last.op = "authenticate" =>
        LET ok == {u \in users : /\ u.email = last.email
                                 /\ Verifies(last.password, u.hashed_password)
                                 /\ u.is_active}
        IN /\ last.raised = "none"
           /\ (ok # {} => last.user \in ok)
           /\ (ok = {} => last.user = NoUser)

\* C6: while a registered user is inactive, authenticate with that user's
\* email and correct password returns none.
C6_InactiveNeverAuthenticates ==
    (/\ last.op = "authenticate"
     /\ \E u \in users : /\ u.email = last.email
                         /\ ~u.is_active
                         /\ Verifies(last.password, u.hashed_password))
    => (last.raised = "none" /\ last.user = NoUser)

\* C6 witness: a user was registered, deactivated through update, and an
\* authenticate call with the correct credentials returned none.
C6_Witness ==
    /\ last.op = "authenticate"
    /\ last.user = NoUser
    /\ \E u \in users : /\ u.email = last.email
                        /\ ~u.is_active
                        /\ u.updated_at # None
                        /\ Verifies(last.password, u.hashed_password)

----------------------------------------------------------------------------
(* Claims about the credential hasher, checked under SpecHasher            *)

\* C7: verify_password returns false and does not raise for every malformed
\* digest and every mismatching digest; authenticate on a user whose stored
\* hash is malformed returns none and does not raise.
C7_VerifyNeverRaises ==
    /\ \A i \in 1..Len(hasher.verified) :
          LET v == hasher.verified[i] IN
          (v.d \in MalformedDigests \/ v.d \notin {BcryptDigest(v.p, v.d.salt)})
          => v.out = Returned(FALSE)
    /\ (/\ last.op = "authenticate"
        /\ \E u \in users : /\ u.email = last.email
                            /\ u.hashed_password \in MalformedDigests)
       => (last.raised = "none" /\ last.user = NoUser)

First72(p) == [i \in 1..(IF Len(p) < 72 THEN Len(p) ELSE 72) |-> p[i]]

----------------------------------------------------------------------------
(* Claims about the token codec, checked under SpecToken                   *)

\* the expiry the caller asked for, in whole seconds
RequestedExp(tk) == ToSeconds(tk.iat + tk.ttl.ticks)

BeforeTtlElapses(tk) ==
    /\ tk.state = "decoded"
    /\ tk.ttl.given
    /\ tk.decoded_at < tk.iat + tk.ttl.ticks

Augmented(tk) ==
    /\ tk.dec.valid
    /\ \A k \in DOMAIN tk.claims :
          k \in DOMAIN tk.dec.payload /\ tk.dec.payload[k] = tk.claims[k]
    /\ "exp" \in DOMAIN tk.dec.payload
    /\ tk.dec.payload["exp"] = Num(RequestedExp(tk))

\* C10 as stated: for every claims mapping and ttl, decoding the token before
\* the ttl elapses returns every key/value of claims plus the expiry.
C10_DecodeEncodeAllClaims ==
    BeforeTtlElapses(token) => Augmented(token)

\* the claims this program issues: no registered claim besides a string "sub"
OwnClaims(claims) ==
    /\ DOMAIN claims \cap {"exp", "nbf", "iat", "aud", "iss", "jti", "at_hash"} = {}
    /\ "sub" \in DOMAIN claims => claims["sub"].t = "str"

\* C10 amended: for every claims mapping that carries no registered JWT claim
\* other than a string "sub", and every ttl, decoding the token before the ttl
\* elapses returns exactly the claims plus "exp" = now + ttl in whole seconds.
C10_DecodeEncodeOwnClaims ==
    (BeforeTtlElapses(token) /\ OwnClaims(token.claims))
    => (/\ Augmented(token)
        /\ DOMAIN token.dec.payload = DOMAIN token.claims \cup {"exp"})

\* C10 witness: a token for {"sub": "1", "role": "admin"} with a ttl of
\* three ticks was decoded some time after it was made, before the ttl had
\* elapsed, and the claims came back with the expiry.
C10_Witness ==
    /\ BeforeTtlElapses(token)
    /\ token.claims = (("sub" :> Str("1")) @@ ("role" :> Str("admin")))
    /\ token.ttl = Delta(3)
    /\ token.decoded_at > token.iat
    /\ Augmented(token)

\* the times at or after t that the clock of a decode_access_token call can show
LaterTimes(t) == {t + d : d \in 0..MaxSkew} \cup {t + DefaultTtl}

\* C11: a token created with a ttl is rejected at every time after
\* now_at_encode + ttl; and a token that was rejected as expired is rejected
\* at every later time.
C11_RejectedAfterExpiry ==
    (token.state = "decoded" /\ token.origin = "encode") =>
        /\ (token.ttl.given /\ token.decoded_at > token.iat + token.ttl.ticks)
           => ~token.dec.valid
        /\ Expired(token.tok.payload, token.decoded_at)
           => \A t \in LaterTimes(token.decoded_at) :
                 ~decode_access_token(token.tok, t).valid

\* C12: a token signed with a secret other than SECRET_KEY decodes to the
\* invalid result, whatever its claims and however far away its expiry.
C12_ForeignSecretInvalid ==
    (/\ token.state = "decoded"
     /\ token.tok.kind = "jwt"
     /\ token.tok.signature = Sign(OtherSecret, token.tok.header, token.tok.payload))
    => token.dec = Invalid

\* C12 witness: a token with an expiry in the future that OtherSecret signed
\* with the configured algorithm was decoded, and the result was invalid.
C12_Witness ==
    /\ token.state = "decoded"
    /\ token.tok.header.alg = ALGORITHM
    /\ token.tok.signature = Sign(OtherSecret, token.tok.header, token.tok.payload)
    /\ ~Expired(token.tok.payload, token.decoded_at)
    /\ token.dec = Invalid

\* C13: decode_access_token does not raise: it returns the token's claims or
\* the one invalid result, and the invalid result whenever the token is
\* malformed, names another algorithm, has a signature that does not match,
\* or has expired.
C13_DecodeNeverRaises ==
    token.state = "decoded" =>
        /\ token.dec.raised = "none"
        /\ \/ token.dec = Invalid
           \/ token.dec.valid /\ token.dec.payload = token.tok.payload
        /\ (\/ token.tok.kind # "jwt"
            \/ token.tok.header.alg # ALGORITHM
            \/ token.tok.signature
                 # Sign(SECRET_KEY, token.tok.header, token.tok.payload)
            \/ Expired(token.tok.payload, token.decoded_at))
           => token.dec = Invalid

\* C13 witness: a token that create_access_token made was decoded after its
\* expiry, and the result was the invalid one.
C13_Witness ==
    /\ token.state = "decoded"
    /\ token.origin = "encode"
    /\ Expired(token.tok.payload, token.decoded_at)
    /\ token.dec = Invalid

\* C14: the token's expiry is now + ttl for every ttl the caller gives, zero
\* included, and now + the default only when the ttl is omitted.
C14_ExpiryIsNowPlusTtl ==
    token.origin = "encode" =>
        token.tok.payload["exp"]
          = Num(ToSeconds(token.iat + (IF token.ttl.given THEN token.ttl.ticks
                                       ELSE DefaultTtl)))

----------------------------------------------------------------------------
(* Claims about the API layer, checked under SpecApi                       *)

\* the stored users that the "sub" of a token names, when the token decodes at t
TokenUsers(us, tok, t) ==
    LET dec == decode_access_token(tok, t) IN
    IF dec.valid /\ "sub" \in DOMAIN dec.payload
    THEN {u \in us : IdStr(u.id) = dec.payload["sub"].s}
    ELSE {}

\* C15: AuthService.create_access_token(user_id) returns a token that decodes
\* to "sub" = user_id and "exp" = now + the default ttl, and leaves the
\* store as it was, whether or not the id is stored.
C15_IssueTokenPure ==
    [][(resp'.op = "issue" /\ resp'.at = now')
       => /\ users' = users
          /\ decode_access_token(resp'.access_token, now')
               = Decoded(("sub" :> Str(resp'.user_id))
                         @@ ("exp" :> Num(ToSeconds(now' + DefaultTtl))))]_vars

\* C15 witness: a token was issued for an id that no stored user has, while
\* the store holds another user.
C15_Witness ==
    /\ resp.op = "issue"
    /\ users # {}
    /\ get_by_id(users, IdOfStr(resp.user_id)) = NoUser
    /\ resp.access_token.payload["sub"] = Str(resp.user_id)

\* C16: get_current_user returns a user exactly when the token decodes, has a
\* "sub", the store holds a user with that id and the user is active, and
\* then it returns that stored user; it answers 401 when the token is
\* invalid, has no "sub" or names no stored user, and 403 when the user is
\* inactive.
C16_CurrentUser ==
    resp.op = "me" =>
        LET named == TokenUsers(users, resp.presented, resp.at) IN
        /\ resp.status = 200 <=> \E u \in named : u.is_active
        /\ resp.status = 200 => resp.current_user \in named
        /\ resp.status # 200 => resp.current_user = NoUser
        /\ named = {} => resp.status = 401
        /\ (\E u \in named : ~u.is_active) => resp.status = 403

\* C16 witness: a request with a token from login got the stored user back.
C16_Witness ==
    /\ resp.op = "me"
    /\ resp.status = 200
    /\ resp.presented \in bearer
    /\ resp.current_user \in users

\* the stored, active users whose id is the "sub" written in a token
LiveSubjects(us, tok) ==
    IF tok.kind = "jwt" /\ "sub" \in DOMAIN tok.payload
    THEN {u \in us : IdStr(u.id) = tok.payload["sub"].s /\ u.is_active}
    ELSE {}

\* C17: while the user a token was issued for is inactive or deleted, every
\* request that presents the token is rejected, also when the token has not
\* expired.
C17_InactiveOrDeletedRejected ==
    (resp.op \in {"me", "list"} /\ LiveSubjects(users, resp.presented) = {})
    => /\ resp.status \in {401, 403}
       /\ resp.current_user = NoUser
       /\ ~resp.executed

\* C17 witness: a token that has not expired was presented after its user,
\* registered earlier, had been deactivated, and was rejected with 403.
C17_Witness ==
    /\ resp.op = "me"
    /\ resp.presented \in bearer
    /\ ~Expired(resp.presented.payload, resp.at)
    /\ resp.status = 403
    /\ \E u \in users :
          /\ IdStr(u.id) = resp.presented.payload["sub"].s
          /\ ~u.is_active
          /\ u.updated_at > u.created_at

\* the users for whom list_users may run: resolved by the token, active, superuser
Superusers(us, tok, t) ==
    {u \in TokenUsers(us, tok, t) : u.is_active /\ u.is_superuser}

\* C18 as stated: get_current_active_superuser returns only an active
\* superuser with a valid token, and every other caller gets 403.
C18_OthersGet403 ==
    resp.op = "list" =>
        LET su == Superusers(users, resp.presented, resp.at) IN
        /\ su # {} => (resp.executed /\ resp.current_user \in su)
        /\ su = {} => (~resp.executed /\ resp.status = 403)

\* C18 amended: list_users runs only for an active superuser with a valid
\* token; a caller that get_current_user rejects gets that rejection (401 for
\* an invalid token, a missing "sub" or an unknown user, 403 for an inactive
\* user), and an active user who is no superuser gets 403.
C18_OthersRejected ==
    resp.op = "list" =>
        LET named == TokenUsers(users, resp.presented, resp.at)
            su == Superusers(users, resp.presented, resp.at)
        IN /\ su # {} => (resp.executed /\ resp.current_user \in su)
           /\ su = {} => (~resp.executed /\ resp.current_user = NoUser)
           /\ named = {} => resp.status = 401
           /\ (named # {} /\ su = {}) => resp.status = 403

\* C18 witness: an active user who is no superuser asked for the user list
\* with a valid token and got 403.
C18_Witness ==
    /\ resp.op = "list"
    /\ resp.status = 403
    /\ ~resp.executed
    /\ \E u \in TokenUsers(users, resp.presented, resp.at) :
          u.is_active /\ ~u.is_superuser

LoginFailure == LoginResponse(401, "Incorrect email or password", TRUE, NoJwt)

\* C20: a login that does not succeed, whether for an unknown email, a wrong
\* password or an inactive user, gets the same response: 401, the same
\* detail, the same headers.
C20_LoginFailureUniform ==
    (/\ resp.op = "login"
     /\ ~\E u \in users : /\ u.email = resp.email
                           /\ u.is_active
                           /\ Verifies(resp.password, u.hashed_password))
    => /\ resp.status = LoginFailure.status
       /\ resp.detail = LoginFailure.detail
       /\ resp.www_authenticate = LoginFailure.www_authenticate
       /\ resp.access_token = LoginFailure.access_token

----------------------------------------------------------------------------
(* The user repository on its own: callers create, update and delete rows, *)
(* handing update a User object that may differ from the stored row in     *)
(* every field.                                                            *)

StoredDigest == BcryptDigest(Pass123, 1)

RepoUpdateInputs ==
    {[User(id, e, NoDigest, n, a, su, None) EXCEPT !.updated_at = None] :
        id \in 1..MaxIds, e \in Emails, n \in {"A", "B"},
        a \in BOOLEAN, su \in BOOLEAN}

NextStore ==
    \/ \E email \in Emails : DirectCreate(email, StoredDigest)
    \/ \E user \in RepoUpdateInputs : Update(user)
    \/ \E id \in 1..MaxIds : Delete(id)

SpecStore == Init /\ [][NextStore]_vars

----------------------------------------------------------------------------
(* AuthService.register over a store that can fail: each call names the    *)
(* repository calls that meet a fault.                                     *)

RegisterPasswords == {Pass123, Other456, NulPassword}

RegisterCall(email, password, faults) ==
    /\ nextId <= MaxIds
    /\ \E s \in 1..MaxSalts : s \notin SaltsInUse(users)
    /\ LET res == register(users, email, password, "A",
                           FreshSalt(SaltsInUse(users)), nextId, now, faults)
       IN /\ users' = res.users
          /\ nextId' = IF res.raised = "none" THEN nextId + 1 ELSE nextId
          /\ last' = [NoOp EXCEPT !.op = "register", !.email = email,
                                  !.password = password, !.faults = faults,
                                  !.raised = res.raised, !.user = res.user,
                                  !.repo_calls = res.repo_calls]
    /\ UNCHANGED <<now, reg, hasher, token, bearer, resp, mongo, cache, calls, orders, order_call>>

NextRegister ==
    \/ \E email \in Emails, password \in RegisterPasswords,
          faults \in SUBSET {"get_by_email", "create"} :
          RegisterCall(email, password, faults)
    \/ \E id \in 1..MaxIds : Delete(id)

SpecRegister == Init /\ [][NextRegister]_vars

----------------------------------------------------------------------------
(* The same repository call made on both backends, as when the one line in *)
(* config/dependencies.py is switched.                                     *)

BackendUsers ==
    {User(id, e, StoredDigest, "A", a, su, None) :
        id \in {None} \cup (1..MaxIds), e \in Emails,
        a \in BOOLEAN, su \in BOOLEAN}

BackendCall(method, user, user_id) ==
    /\ method = "create" => nextId <= MaxIds /\ user.id = None
    /\ method = "update" => user.id # None
    /\ LET pg == postgres_call(method, users, user, user_id, nextId, now)
           mg == mongo_call(method, mongo.docs, user, user_id, nextId)
       IN /\ users' = pg.rows
          /\ nextId' = IF method = "create" /\ pg.raised = "none"
                       THEN nextId + 1 ELSE nextId
          /\ mongo' = [docs |-> mg.rows, op |-> method,
                       postgres |-> [pg EXCEPT !.rows = {}],
                       mongo |-> [mg EXCEPT !.rows = {}]]
    /\ UNCHANGED <<now, reg, last, hasher, token, bearer, resp, cache, calls, orders, order_call>>

NextBackends ==
    \/ \E id \in 1..MaxIds : BackendCall("get_by_id", NoUser, id)
    \/ \E user \in BackendUsers : BackendCall("get_by_email", user, None)
    \/ \E user \in BackendUsers : BackendCall("create", user, None)
    \/ \E user \in BackendUsers : BackendCall("update", user, None)
    \/ \E id \in 1..MaxIds : BackendCall("delete", NoUser, id)
    \/ BackendCall("list", NoUser, None)

SpecBackends == Init /\ [][NextBackends]_vars

----------------------------------------------------------------------------
(* UserService in front of the store and the cache: get_user_by_id and     *)
(* update_user calls of concurrent requests, each advancing from one await *)
(* to the next, while cache entries expire.                                *)

\* get_user_by_id up to the answer of cache.get: a hit returns at once
GetStart(p, user_id) ==
    /\ calls[p].pc = "idle"
    /\ LET cached_data == cache_get(cache, UserKey(user_id))
           res == user_from_cache(cached_data)
       IN calls' = [calls EXCEPT ![p] =
             IF cached_data # NoValue
             THEN [NoServiceCall EXCEPT !.op = "get", !.pc = "done",
                                        !.user_id = user_id, !.hit = TRUE,
                                        !.first = cached_data.from,
                                        !.raised = res.raised,
                                        !.user = res.user]
             ELSE [NoServiceCall EXCEPT !.op = "get", !.pc = "missed",
                                        !.user_id = user_id]]
    /\ UNCHANGED <<users, nextId, now, reg, last, hasher, token, bearer, resp,
                   mongo, cache, orders, order_call>>

\* the cache missed: user_repo.get_by_id answers
GetRead(p) ==
    /\ calls[p].op = "get" /\ calls[p].pc = "missed"
    /\ calls' = [calls EXCEPT ![p].pc = "read",
                              ![p].read = get_by_id(users, calls[p].user_id)]
    /\ UNCHANGED <<users, nextId, now, reg, last, hasher, token, bearer, resp,
                   mongo, cache, orders, order_call>>

\* a user that was found is cached; what was read is returned
GetFill(p) ==
    /\ calls[p].op = "get" /\ calls[p].pc = "read"
    /\ cache' = IF calls[p].read # NoUser
                THEN cache_set(cache, UserKey(calls[p].user_id),
                               Cached(calls[p].read))
                ELSE cache
    /\ calls' = [calls EXCEPT ![p].pc = "done", ![p].user = calls[p].read]
    /\ UNCHANGED <<users, nextId, now, reg, last, hasher, token, bearer, resp,
                   mongo, orders, order_call>>

\* update_user up to the answer of user_repo.update
UpdateStart(p, user) ==
    /\ calls[p].pc = "idle"
    /\ LET res == update(users, user, now) IN
       /\ users' = res.users
       /\ calls' = [calls EXCEPT ![p] =
             [NoServiceCall EXCEPT
                !.op = "update", !.user_id = user.id,
                !.pc = IF res.raised = "none" THEN "updated" ELSE "done",
                !.raised = res.raised, !.user = res.user]]
    /\ UNCHANGED <<nextId, now, reg, last, hasher, token, bearer, resp,
                   mongo, cache, orders, order_call>>

\* update_user deletes the key and returns
UpdateInvalidate(p) ==
    /\ calls[p].op = "update" /\ calls[p].pc = "updated"
    /\ cache' = cache_delete(cache, UserKey(calls[p].user_id))
    /\ calls' = [calls EXCEPT ![p].pc = "done"]
    /\ UNCHANGED <<users, nextId, now, reg, last, hasher, token, bearer, resp,
                   mongo, orders, order_call>>

\* the caller takes the result; the slot serves the next request
ServiceReturn(p) ==
    /\ calls[p].pc = "done"
    /\ calls' = [calls EXCEPT ![p] = NoServiceCall]
    /\ UNCHANGED <<users, nextId, now, reg, last, hasher, token, bearer, resp,
                   mongo, cache, orders, order_call>>

\* an entry set with expire=3600 is dropped by the cache when its hour is over
CacheExpire(key) ==
    /\ cache[key] # NoValue
    /\ cache' = cache_delete(cache, key)
    /\ UNCHANGED <<users, nextId, now, reg, last, hasher, token, bearer, resp,
                   mongo, calls, orders, order_call>>

\* the objects callers hand to update_user: a stored user with a new name
\* or activity flag
ServicePatches(us) ==
    {[u EXCEPT !.full_name = n, !.is_active = a] :
        u \in us, n \in {"A", "B"}, a \in BOOLEAN}

NextCache ==
    \/ DirectCreate("a@x.com", StoredDigest)
    \/ \E p \in Procs, id \in 1..MaxIds : GetStart(p, id)
    \/ \E p \in Procs : GetRead(p)
    \/ \E p \in Procs : GetFill(p)
    \/ \E p \in Procs, user \in ServicePatches(users) : UpdateStart(p, user)
    \/ \E p \in Procs : UpdateInvalidate(p)
    \/ \E p \in Procs : ServiceReturn(p)
    \/ \E key \in CacheKeys : CacheExpire(key)

SpecCache == Init /\ [][NextCache]_vars

----------------------------------------------------------------------------
(* OrderService.create_order, await by await, over users that come and are *)
(* deactivated and carts that fill.                                        *)

ProductLists ==
    {<<>>, <<"p1">>, <<"p2">>, <<"p3">>, <<"p1", "p1">>, <<"p1", "p2">>,
     <<"p3", "p1">>}

\* create_order up to the check of the user
OrderStart(user_id, product_ids) ==
    /\ order_call.pc = "idle"
    /\ Cardinality(orders) < MaxOrders
    /\ LET r == validate_user(get_by_id(users, user_id)) IN
       order_call' = [NoOrderCall EXCEPT
                        !.pc = IF r = "none" THEN "user_ok" ELSE "done",
                        !.user_id = user_id, !.product_ids = product_ids,
                        !.raised = r]
    /\ UNCHANGED <<users, nextId, now, reg, last, hasher, token, bearer, resp,
                   mongo, cache, calls, orders>>

\* the products are fetched and priced
OrderProducts ==
    /\ order_call.pc = "user_ok"
    /\ LET v == validate_products(order_call.product_ids) IN
       order_call' = [order_call EXCEPT
                        !.pc = IF v.raised = "none" THEN "validated" ELSE "done",
                        !.raised = v.raised, !.total_price = v.total_price]
    /\ UNCHANGED <<users, nextId, now, reg, last, hasher, token, bearer, resp,
                   mongo, cache, calls, orders>>

\* the order is built and order_repo.create stores it
OrderCreate ==
    /\ order_call.pc = "validated"
    /\ LET res == order_create(orders, Order(order_call.user_id,
                                             order_call.product_ids,
                                             order_call.total_price))
       IN /\ orders' = res.orders
          /\ order_call' = [order_call EXCEPT !.pc = "created",
                                              !.order = res.order]
    /\ UNCHANGED <<users, nextId, now, reg, last, hasher, token, bearer, resp,
                   mongo, cache, calls>>

\* the cart's cache key is deleted and the created order returned
OrderInvalidate ==
    /\ order_call.pc = "created"
    /\ cache' = cache_delete(cache, CartKey(order_call.user_id))
    /\ order_call' = [order_call EXCEPT !.pc = "done", !.cart_deleted = TRUE]
    /\ UNCHANGED <<users, nextId, now, reg, last, hasher, token, bearer, resp,
                   mongo, calls, orders>>

\* the caller takes the result
OrderReturn ==
    /\ order_call.pc = "done"
    /\ order_call' = NoOrderCall
    /\ UNCHANGED <<users, nextId, now, reg, last, hasher, token, bearer, resp,
                   mongo, cache, calls, orders>>

\* the user's cart is cached
CartPut(user_id) ==
    /\ cache[CartKey(user_id)] = NoValue
    /\ cache' = cache_set(cache, CartKey(user_id),
                          [json |-> [items |-> "cart"], from |-> NoUser])
    /\ UNCHANGED <<users, nextId, now, reg, last, hasher, token, bearer, resp,
                   mongo, calls, orders, order_call>>

\* a stored user is deactivated or reactivated
Deactivations(us) == {[u EXCEPT !.is_active = ~u.is_active] : u \in us}

NextOrders ==
    \/ DirectCreate("a@x.com", StoredDigest)
    \/ \E user \in Deactivations(users) : Update(user)
    \/ \E id \in 1..MaxIds : CartPut(id)
    \/ \E id \in 1..MaxIds, product_ids \in ProductLists :
          OrderStart(id, product_ids)
    \/ OrderProducts
    \/ OrderCreate
    \/ OrderInvalidate
    \/ OrderReturn

SpecOrders == Init /\ [][NextOrders]_vars

----------------------------------------------------------------------------
----------------------------------------------------------------------------
\* C22: update(user) changes, of the stored user with that id, only email,
\* full_name, is_active and is_superuser (the store stamps updated_at): id,
\* hashed_password and created_at stay, every other stored user stays, and
\* the four fields take the values handed in. When no stored user has that
\* id, update fails with ValueError and the store is unchanged; an update
\* that fails for any reason leaves the store unchanged.
C22_UpdateFrame ==
    [][last'.op = "update" =>
         LET arg == last'.arg
             old == get_by_id(users, arg.id)
             new == get_by_id(users', arg.id)
         IN IF old = NoUser
            THEN last'.raised = "ValueError" /\ users' = users
            ELSE /\ new.id = old.id
                 /\ new.hashed_password = old.hashed_password
                 /\ new.created_at = old.created_at
                 /\ users' \ {new} = users \ {old}
                 /\ last'.raised # "none" => users' = users
                 /\ last'.raised = "none" =>
                       /\ new.email = arg.email
                       /\ new.full_name = arg.full_name
                       /\ new.is_active = arg.is_active
                       /\ new.is_superuser = arg.is_superuser
                       /\ last'.user = new]_vars

\* an update went through whose object carried another hashed_password and
\* another name than the stored row, next to a second stored user
C22_Witness ==
    /\ last.op = "update"
    /\ last.raised = "none"
    /\ last.arg.hashed_password # last.user.hashed_password
    /\ last.user.full_name = "B"
    /\ last.user.is_superuser
    /\ Cardinality(users) = 2

\* C23: delete(user_id) returns True and removes exactly the stored user
\* with that id, after which get_by_id finds nothing; it returns False and
\* leaves the store unchanged when no stored user has that id.
C23_Delete ==
    [][last'.op = "delete" =>
         LET old == get_by_id(users, last'.id)
         IN IF old # NoUser
            THEN /\ last'.deleted
                 /\ users' = users \ {old}
                 /\ get_by_id(users', last'.id) = NoUser
            ELSE ~last'.deleted /\ users' = users]_vars

\* one of two stored users was deleted
C23_Witness ==
    /\ last.op = "delete"
    /\ last.deleted
    /\ get_by_id(users, last.id) = NoUser
    /\ Cardinality(users) = 1

----------------------------------------------------------------------------
\* the number of times a repository method was called
Called(repo_calls, method) ==
    Cardinality({i \in DOMAIN repo_calls : repo_calls[i] = method})

\* a fault met by a call register made propagates under its own name
FaultPropagates(op) ==
    /\ "get_by_email" \in op.faults =>
          op.raised = StoreFault /\ Called(op.repo_calls, "create") = 0
    /\ ("create" \in op.faults /\ Called(op.repo_calls, "create") > 0) =>
          op.raised = StoreFault /\ Called(op.repo_calls, "create") = 1

\* C24: register calls create at most once, exactly once when the email
\* lookup finds nothing, and a store fault of get_by_email or create
\* propagates unmodified without a second create.
C24_CreateOnceWhenLookupEmpty ==
    [][last'.op = "register" =>
         /\ Called(last'.repo_calls, "create") <= 1
         /\ ("get_by_email" \notin last'.faults
             /\ get_by_email(users, last'.email) = NoUser)
            => Called(last'.repo_calls, "create") = 1
         /\ FaultPropagates(last')]_vars

----------------------------------------------------------------------------
\* C25: every user register created holds, as hashed_password, a digest the
\* hasher produced (for the registered password, under some salt) and never
\* the password itself; the UserResponse built for the user exposes exactly
\* id, email, full_name, is_active and created_at.
C25_HashStoredNotPlaintext ==
    /\ \A u \in users :
          /\ \E p \in ApiPasswords, s \in 1..MaxSalts :
                u.hashed_password = BcryptDigest(p, s)
          /\ \A p \in ApiPasswords : u.hashed_password # Verbatim(p)
          /\ DOMAIN UserResponse(u) =
                {"id", "email", "full_name", "is_active", "created_at"}
    /\ (resp.op = "register" /\ resp.status = 201) =>
          /\ get_by_email(users, resp.email).hashed_password
                \in {BcryptDigest(resp.password, s) : s \in 1..MaxSalts}
          /\ DOMAIN resp.body =
                {"id", "email", "full_name", "is_active", "created_at"}
          /\ resp.body = UserResponse(get_by_email(users, resp.email))

\* a registration was answered 201 with the profile of the stored user
C25_Witness ==
    /\ resp.op = "register"
    /\ resp.status = 201
    /\ resp.body.email = "a@x.com"
    /\ \E u \in users : u.email = "a@x.com" /\ Verifies(resp.password, u.hashed_password)

----------------------------------------------------------------------------
\* the fields of the User domain model both backends are to agree on
SameUser(u, v) ==
    /\ u.email = v.email
    /\ u.hashed_password = v.hashed_password
    /\ u.full_name = v.full_name
    /\ u.is_active = v.is_active
    /\ u.is_superuser = v.is_superuser
    /\ (u.id = None) = (v.id = None)
    /\ (u.created_at = None) = (v.created_at = None)

\* C26: the Postgres and the Mongo backend are interchangeable: both
\* provide get_by_id, get_by_email, create, update, delete and list, the
\* same call ends the same way on both with users that agree on the fields
\* of the User model, and create on either returns the user with id and
\* created_at assigned.
C26_BackendsInterchangeable ==
    mongo.op # "init" =>
          /\ mongo.op \in PostgresMethods
          /\ mongo.postgres.raised \notin {"NameError", "TypeError", "AttributeError"}
          /\ mongo.mongo.raised = mongo.postgres.raised
          /\ SameUser(mongo.mongo.user, mongo.postgres.user)
          /\ mongo.mongo.deleted = mongo.postgres.deleted
          /\ (mongo.op = "create" /\ mongo.postgres.raised = "none") =>
                /\ mongo.mongo.user.id # None
                /\ mongo.mongo.user.created_at # None
                /\ mongo.postgres.user.id # None
                /\ mongo.postgres.user.created_at # None

----------------------------------------------------------------------------
\* an update_user call that has written the store and not yet returned
UpdateInFlight(user_id) ==
    \E q \in Procs : /\ calls[q].op = "update"
                     /\ calls[q].pc = "updated"
                     /\ calls[q].user_id = user_id

\* C27: UserService never serves stale data once update_user has returned:
\* a get_user_by_id call that completes while no update_user of that user
\* is between its store write and its return, and returns a user, returns
\* the email, full_name and is_active the store holds, also when the call
\* missed the cache and read the store before the update.
C27_NoStaleAfterUpdate ==
    [][\A p \in Procs :
         (/\ calls[p].op = "get"
          /\ calls[p].pc # "done"
          /\ calls'[p].pc = "done"
          /\ calls'[p].raised = "none"
          /\ calls'[p].user # NoUser
          /\ ~UpdateInFlight(calls[p].user_id)
          /\ get_by_id(users', calls[p].user_id) # NoUser)
         => LET row == get_by_id(users', calls[p].user_id)
            IN /\ calls'[p].user.email = row.email
               /\ calls'[p].user.full_name = row.full_name
               /\ calls'[p].user.is_active = row.is_active]_vars

\* C28: a get_user_by_id served from the cache succeeds and returns a User
\* equal to the one the call that filled the cache returned, is_superuser
\* and hashed_password included.
C28_CacheHitEqualsFirst ==
    \A p \in Procs :
        (calls[p].op = "get" /\ calls[p].pc = "done" /\ calls[p].hit)
        => /\ calls[p].raised = "none"
           /\ calls[p].user = calls[p].first

----------------------------------------------------------------------------
\* a listed product that product_repo does not know
SomeProductMissing(product_ids) ==
    \E i \in DOMAIN product_ids : product_get_by_id(product_ids[i]) = NoProduct

\* C29: create_order fails with ValueError, creating no order and deleting
\* no cache key, when the user does not exist or is inactive or a listed
\* product does not exist; otherwise it creates exactly one order, with
\* status "pending" for that user and those products, and only afterwards
\* deletes the cache key cart:<user_id>. Orders appear and cache keys go
\* only through these steps.
C29_CreateOrder ==
    [][/\ (order_call.pc = "idle" /\ order_call'.pc # "idle") =>
            LET user == get_by_id(users, order_call'.user_id) IN
            (user = NoUser \/ ~user.is_active)
               <=> (order_call'.pc = "done" /\ order_call'.raised = "ValueError")
       /\ (order_call.pc = "user_ok" /\ order_call'.pc # "user_ok") =>
            (SomeProductMissing(order_call.product_ids)
               <=> (order_call'.pc = "done" /\ order_call'.raised = "ValueError"))
       /\ order_call'.raised = "ValueError" =>
            /\ orders' = orders
            /\ \A k \in CacheKeys : cache[k] # NoValue => cache'[k] # NoValue
            /\ order_call'.order = NoOrder
            /\ ~order_call'.cart_deleted
       /\ orders' # orders =>
            /\ order_call.pc = "validated"
            /\ order_call'.order \notin orders
            /\ orders' = orders \cup {order_call'.order}
            /\ order_call'.order.status = "pending"
            /\ order_call'.order.user_id = order_call.user_id
            /\ order_call'.order.product_ids = order_call.product_ids
            /\ cache' = cache
       /\ \A k \in CacheKeys :
            (cache[k] # NoValue /\ cache'[k] = NoValue) =>
               /\ order_call.pc = "created"
               /\ k = CartKey(order_call.user_id)
               /\ order_call.order \in orders
       /\ (/\ order_call.pc # "done"
           /\ order_call'.pc = "done"
           /\ order_call'.raised = "none") =>
            /\ order_call'.order \in orders'
            /\ order_call'.cart_deleted
            /\ cache'[CartKey(order_call'.user_id)] = NoValue]_vars

\* an order of two products went through for a user whose cart was cached:
\* the order is stored and the cart's key is gone
C29_Witness ==
    /\ order_call.pc = "done"
    /\ order_call.raised = "none"
    /\ order_call.order \in orders
    /\ order_call.order.status = "pending"
    /\ Len(order_call.order.product_ids) = 2
    /\ order_call.cart_deleted
    /\ cache[CartKey(order_call.user_id)] = NoValue
    /\ Cardinality(orders) = 2

\* C30: create_order creates an order only if every listed product exists
\* and is in stock.
C30_OnlyInStock ==
    \A o \in orders : \A i \in DOMAIN o.product_ids :
        /\ product_get_by_id(o.product_ids[i]) # NoProduct
        /\ product_get_by_id(o.product_ids[i]).in_stock

====
